---- MODULE Spec2Model ----
(***************************************************************************)
(* A model of quirkfly/medbot-backend:                                     *)
(*   - medbot_app.py: initialize() (guideline chunker, embedding, vector   *)
(*     index), retrieve_relevant_chunks(), and the two HTTP handlers       *)
(*     start_consultation() and chat();                                    *)
(*   - get_oauth2_access_token_server.py: main(), the redirect listener    *)
(*     thread and the token persistence.                                   *)
(*                                                                         *)
(* Python strings that the code takes apart (split, strip, tokenise, join) *)
(* are sequences of one-character strings.  JSON values are tagged records *)
(* ([t |-> "str", v |-> ...], [t |-> "null"], ...).                        *)
(***************************************************************************)
EXTENDS Integers, Sequences, FiniteSets, TLC

VARIABLES
    \* ---- medbot_app.py: module globals and the position of __main__ ----
    guideline_content,   \* initialize(): the scraped text (line 64)
    chunks,              \* initialize(): the chunker's output (lines 69-76)
    index,               \* global index: the vectors added, in order (78-80)
    metadata,            \* global metadata (line 81)
    app_pc,              \* "start" | "chunked" | "serving" | "crashed"
    retrieval,           \* result of the last retrieve_relevant_chunks call
    \* ---- medbot_app.py: one HTTP exchange ----
    request,             \* the last request received
    response,            \* the response to it
    completion_request,  \* the messages handed to call_gpt4 by it, or None
    \* ---- get_oauth2_access_token_server.py ----
    main_pc,             \* position of main()
    envfile,             \* token keys of the .env file
    environ,             \* os.environ as loaded by load_dotenv() (line 11)
    credentials,         \* CLIENT_ID and CLIENT_SECRET are both set
    tokens,              \* main(): local tokens
    auth_code_holder,    \* global auth_code_holder["code"]
    code,                \* main(): local code
    httpd,               \* the TCPServer and its serve_forever thread
    socket_queue,        \* connections accepted by the OS, not yet handled
    request_log,         \* requests handled, in order, with the status sent
    token_requests       \* POSTs made to TOKEN_URL, with their outcome

rag_vars == <<guideline_content, chunks, index, metadata, app_pc, retrieval>>

chat_vars == <<request, response, completion_request>>

oauth_vars ==
    <<main_pc, envfile, environ, credentials, tokens, auth_code_holder, code,
      httpd, socket_queue, request_log, token_requests>>

vars == <<rag_vars, chat_vars, oauth_vars>>

None == [t |-> "null"]

(***************************************************************************)
(* Bounds of the model.                                                    *)
(***************************************************************************)
MaxTextLen == 5

(***************************************************************************)
(* Python string operations, on sequences of characters.                   *)
(***************************************************************************)
IsSpace(c) == c \in {" ", "\n"}

RECURSIVE lstrip(_)
lstrip(s) ==
    IF s # <<>> /\ IsSpace(Head(s)) THEN lstrip(Tail(s)) ELSE s

RECURSIVE rstrip(_)
rstrip(s) ==
    IF s # <<>> /\ IsSpace(s[Len(s)])
    THEN rstrip(SubSeq(s, 1, Len(s) - 1))
    ELSE s

\* str.strip()
strip(s) == rstrip(lstrip(s))

\* The delimiter of line 68 and the suffix of lines 72 and 75.
SENTENCE_DELIMITER == <<".", " ">>

RECURSIVE split_from(_, _)
split_from(s, cur) ==
    IF s = <<>> THEN <<cur>>
    ELSE IF Len(s) >= 2 /\ SubSeq(s, 1, 2) = SENTENCE_DELIMITER
    THEN <<cur>> \o split_from(SubSeq(s, 3, Len(s)), <<>>)
    ELSE split_from(Tail(s), Append(cur, Head(s)))

\* guideline_content.split(". ")
split(s) == split_from(s, <<>>)

RECURSIVE join(_, _)
join(sep, parts) ==
    IF parts = <<>> THEN <<>>
    ELSE IF Len(parts) = 1 THEN parts[1]
    ELSE parts[1] \o sep \o join(sep, Tail(parts))

(***************************************************************************)
(* The tokenizer (tiktoken cl100k_base, line 67) is a library outside the  *)
(* repository.  Its token count is modelled additively: a letter "a" is a  *)
(* one-token word, "L" stands for a 250-token passage without a sentence   *)
(* break, "." is one token and whitespace merges into the next token.      *)
(***************************************************************************)
TokenWeight(c) ==
    CASE c = "a" -> 1
      [] c = "L" -> 250
      [] c = "." -> 1
      [] OTHER -> 0

RECURSIVE encode_len(_)
encode_len(s) ==
    IF s = <<>> THEN 0 ELSE TokenWeight(Head(s)) + encode_len(Tail(s))

TOKEN_BUDGET == 500

(***************************************************************************)
(* initialize(), lines 68-76: the chunker.                                 *)
(***************************************************************************)
\* The chunker with the sentence that overflows the buffer left out of the
\* buffer it opens.
RECURSIVE chunk_loop_dropping(_, _, _)
chunk_loop_dropping(sentences, acc, current_chunk) ==
    IF sentences = <<>> THEN Append(acc, strip(current_chunk))
    ELSE LET sentence == Head(sentences) IN
         IF encode_len(current_chunk \o sentence) < TOKEN_BUDGET
         THEN chunk_loop_dropping(Tail(sentences), acc,
                                  current_chunk \o sentence \o SENTENCE_DELIMITER)
         ELSE chunk_loop_dropping(Tail(sentences),
                                  Append(acc, strip(current_chunk)), <<>>)

RECURSIVE chunk_loop(_, _, _)
chunk_loop(sentences, acc, current_chunk) ==
    IF sentences = <<>> THEN Append(acc, strip(current_chunk))
    ELSE LET sentence == Head(sentences) IN
         IF encode_len(current_chunk \o sentence) < TOKEN_BUDGET
         THEN chunk_loop(Tail(sentences), acc,
                         current_chunk \o sentence \o SENTENCE_DELIMITER)
         ELSE chunk_loop(Tail(sentences), Append(acc, strip(current_chunk)),
                         sentence \o SENTENCE_DELIMITER)

chunk_text(text) == chunk_loop(split(text), <<>>, <<>>)

(***************************************************************************)
(* The texts line 64 can build: "\n".join of stripped tag texts.  Within   *)
(* the alphabet below (no newline) that is any string that neither starts  *)
(* nor ends with a blank; no tag at all gives the empty text.              *)
(***************************************************************************)
Alphabet == {"a", "L", ".", " "}

Strings(n) == UNION {[1..k -> Alphabet] : k \in 0..n}

GuidelineTexts == {s \in Strings(MaxTextLen) : strip(s) = s}

(***************************************************************************)
(* embed_text(), lines 88-104.  The remote embedding call either raises    *)
(* (service error, re-raised) or returns a vector; the vector is opaque    *)
(* and stands for the stripped text it was computed from.                  *)
(***************************************************************************)
embed_input_valid(text) == strip(text) # <<>>

embedding(text) == [embedding_of |-> strip(text)]

EMBEDDING_DIM == 1536

SOURCE_LABEL == "NICE chest pain"

DEFAULT_TOP_K == 3

(***************************************************************************)
(* Python's list indexing, with negative positions counted from the end.   *)
(***************************************************************************)
list_item(list, i) ==
    IF i >= 0 THEN list[i + 1] ELSE list[Len(list) + i + 1]

Min(a, b) == IF a <= b THEN a ELSE b

(***************************************************************************)
(* faiss.IndexFlatL2.search (line 162): the labels of the k nearest stored *)
(* vectors, nearest first, padded with -1 when fewer than k vectors are    *)
(* stored.  The distances come from the remote embedding, so every ranking *)
(* of the stored positions is a possible outcome.                          *)
(***************************************************************************)
Rankings(n, m) ==
    {r \in [1..m -> 0..(n - 1)] : \A i, j \in 1..m : i # j => r[i] # r[j]}

index_search(idx, k) ==
    LET n == Len(idx.vectors)
        m == Min(n, k)
    IN  {r \o [i \in 1..(k - m) |-> -1] : r \in Rankings(n, m)}

\* Line 163: the texts of the labels returned.
label_texts(labels) ==
    [i \in 1..Len(labels) |-> list_item(metadata, labels[i]).text]

NoRetrieval == [status |-> "none"]

(***************************************************************************)
(* initialize(), lines 67-76: chunk the guideline text.                    *)
(***************************************************************************)
InitializeChunk ==
    /\ app_pc = "start"
    /\ chunks' = chunk_text(guideline_content)
    /\ app_pc' = "chunked"
    /\ UNCHANGED <<guideline_content, index, metadata, retrieval>>
    /\ UNCHANGED <<chat_vars, oauth_vars>>

(***************************************************************************)
(* initialize(), lines 78-81: create the index, embed every chunk, add the *)
(* vectors and record the metadata.  An embed_text failure (validation or  *)
(* service error) propagates out of initialize() and ends the process      *)
(* with the empty index of line 78 and no metadata.                        *)
(***************************************************************************)
InitializeIndex ==
    /\ app_pc = "chunked"
    /\ \E service_ok \in BOOLEAN :
         IF service_ok /\ \A i \in 1..Len(chunks) : embed_input_valid(chunks[i])
         THEN /\ index' = [t |-> "IndexFlatL2", d |-> EMBEDDING_DIM,
                           vectors |-> [i \in 1..Len(chunks) |-> embedding(chunks[i])]]
              /\ metadata' = [i \in 1..Len(chunks) |->
                                [text |-> chunks[i], source |-> SOURCE_LABEL]]
              /\ app_pc' = "serving"
         ELSE /\ index' = [t |-> "IndexFlatL2", d |-> EMBEDDING_DIM, vectors |-> <<>>]
              /\ metadata' = metadata
              /\ app_pc' = "crashed"
    /\ UNCHANGED <<guideline_content, chunks, retrieval>>
    /\ UNCHANGED <<chat_vars, oauth_vars>>

(***************************************************************************)
(* retrieve_relevant_chunks(query, top_k), lines 160-163.                  *)
(***************************************************************************)
Queries == {<<>>, <<"a">>}

Retrieve ==
    /\ app_pc = "serving"
    /\ \E query \in Queries, top_k \in 1..DEFAULT_TOP_K, service_ok \in BOOLEAN :
         IF embed_input_valid(query) /\ service_ok
         THEN \E labels \in index_search(index, top_k) :
                retrieval' = [status |-> "ok", top_k |-> top_k,
                              labels |-> labels, texts |-> label_texts(labels)]
         ELSE retrieval' = [status |-> "error", top_k |-> top_k]
    /\ UNCHANGED <<guideline_content, chunks, index, metadata, app_pc>>
    /\ UNCHANGED <<chat_vars, oauth_vars>>

(***************************************************************************)
(* JSON values of request and response bodies.                             *)
(***************************************************************************)
Str(s) == [t |-> "str", v |-> s]

Num == [t |-> "num"]

List(items) == [t |-> "list", v |-> items]

Missing == [t |-> "missing"]

Raised == [t |-> "raised"]

Message(role, content) == [t |-> "dict", role |-> role, content |-> content]

LocalizedMessage(role, content, content_sk) ==
    [t |-> "dict", role |-> role, content |-> content, content_sk |-> content_sk]

(***************************************************************************)
(* Lines 23-48 and 139-145: the prompt.  The base template is one symbol.  *)
(***************************************************************************)
SYSTEM_PROMPT_BASE == <<"SYSTEM_PROMPT_BASE">>

build_prompt(symptom_context, patient_medical_history) ==
    SYSTEM_PROMPT_BASE
    \o (IF patient_medical_history # <<>>
        THEN <<"\n\nPatient's medical history:\n">> \o patient_medical_history
        ELSE <<>>)
    \o (IF symptom_context # <<>>
        THEN <<"\n\nUse the following medical guidelines to inform your questioning:\n">>
             \o symptom_context
        ELSE <<>>)

(***************************************************************************)
(* Lines 124-137: the greeting (diacritics left out of the literals).      *)
(***************************************************************************)
get_time_based_greeting(hour) ==
    IF hour < 12 THEN "Dobre rano"
    ELSE IF hour < 18 THEN "Dobry den"
    ELSE "Dobry vecer"

generate_greeting(hour, patient_name, returning) ==
    <<get_time_based_greeting(hour)>>
    \o (IF patient_name # None /\ patient_name.v # <<>>
        THEN <<", ">> \o patient_name.v ELSE <<>>)
    \o <<". ">>
    \o <<IF returning THEN "Vitajte spat" ELSE "Som vas virtualny zdravotny asistent">>
    \o <<". Ako sa dnes citite? Mozete mi opisat svoje zdravotne tazkosti?">>

(***************************************************************************)
(* Responses.  An exception no handler catches ends the request with       *)
(* Flask's 500.                                                            *)
(***************************************************************************)
\* No request yet; no response yet (none sent, or the request is in flight).
NoRequest == [op |-> "none"]

NoResponse == [status |-> 0]

ServerError(what) == [status |-> 500, body |-> [exception |-> what]]

JsonResponse(status, body) == [status |-> status, body |-> body]

(***************************************************************************)
(* start_consultation(), lines 182-188, with fetch_patient_medical_history *)
(* (106-122).  id_token is GOOGLE_ID_TOKEN of the .env file; backend is    *)
(* what the patient API call gave: Raised (caught, line 120: {}) or the    *)
(* JSON object, of which only firstName is read.                           *)
(***************************************************************************)
start_consultation(id_token, backend, hour) ==
    IF id_token = ""
    THEN ServerError("RuntimeError")
    ELSE IF backend = Raised \/ backend.fields = {}
    THEN JsonResponse(500, [error |-> "Unable to fetch patient data."])
    ELSE LET greeting == Str(generate_greeting(hour, backend.firstName, TRUE))
         IN  JsonResponse(200,
               [greeting |-> greeting,
                conversation |->
                  <<LocalizedMessage("assistant", greeting, greeting)>>])

(***************************************************************************)
(* Line 207: [msg for msg in conversation if msg['role'] != 'system'].     *)
(* Iterating a list gives its elements, a string its characters, an object *)
(* its keys; None and numbers are not iterable.  msg['role'] raises on     *)
(* anything but an object that has the key.                                *)
(***************************************************************************)
MESSAGE_KEYS == <<"role", "content", "content_sk">>

iter_items(value) ==
    CASE value.t = "list" -> value.v
      [] value.t = "str" -> [i \in 1..Len(value.v) |-> Str(<<value.v[i]>>)]
      [] value.t = "dict" ->
           LET keys == SelectSeq(MESSAGE_KEYS, LAMBDA k : k \in DOMAIN value)
           IN  [i \in 1..Len(keys) |-> Str(<<keys[i]>>)]
      [] OTHER -> <<>>

is_iterable(value) == value.t \in {"list", "str", "dict"}

has_role(msg) == msg.t = "dict" /\ "role" \in DOMAIN msg

filter_raises(value) ==
    \/ ~is_iterable(value)
    \/ \E i \in 1..Len(iter_items(value)) : ~has_role(iter_items(value)[i])

\* The filter removing a system message only where it is the first element.
strip_leading_system(value) ==
    LET items == iter_items(value)
    IN  IF items # <<>> /\ items[1].role = "system" THEN Tail(items) ELSE items

strip_system(value) ==
    SelectSeq(iter_items(value), LAMBDA msg : msg.role # "system")

\* The turn with the user's message put right after the system message.
with_user_turn_first(conversation, system_prompt, user_input) ==
    <<Message("system", Str(system_prompt)), Message("user", user_input)>>
    \o strip_system(conversation)

\* Lines 207-209: the messages of this turn, up to the user's.
with_user_turn(conversation, system_prompt, user_input) ==
    <<Message("system", Str(system_prompt))>>
    \o strip_system(conversation)
    \o <<Message("user", user_input)>>

(***************************************************************************)
(* chat(), lines 190-215.  remote holds what the remote calls of this      *)
(* request give: translate_in (line 196), keywords (200, the local entity  *)
(* recogniser), embed_ok and labels (204), completion (211), translate_out *)
(* (212).  The result is the response and the messages passed to           *)
(* call_gpt4, if it was reached.                                           *)
(***************************************************************************)
Handled(resp, completion) == [response |-> resp, completion_request |-> completion]

chat(data, remote) ==
    LET user_input == data.input
        conversation ==
            IF data.conversation = Missing THEN List(<<>>) ELSE data.conversation
    IN
    IF remote.translate_in = Raised
    THEN Handled(ServerError("translate_slovak_to_english"), None)
    ELSE IF remote.translate_in.v = <<>>
    THEN Handled(JsonResponse(400, [error |-> "Invalid input."]), None)
    ELSE IF remote.keywords # {} /\ ~remote.embed_ok
    THEN Handled(ServerError("embed_text"), None)
    ELSE
    LET guideline_context ==
            IF remote.keywords # {}
            THEN join(<<"\n", "\n">>, label_texts(remote.labels))
            ELSE <<>>
        system_prompt == build_prompt(guideline_context, <<>>)
    IN
    IF filter_raises(conversation)
    THEN Handled(ServerError("TypeError or KeyError"), None)
    ELSE
    LET sent == with_user_turn(conversation, system_prompt, user_input)
    IN
    IF remote.completion = Raised
    THEN Handled(ServerError("call_gpt4"), List(sent))
    ELSE IF remote.translate_out = Raised
    THEN Handled(ServerError("translate_english_to_slovak"), List(sent))
    ELSE Handled(
           JsonResponse(200,
             [conversation |->
                Append(sent, LocalizedMessage("assistant", remote.completion,
                                              remote.translate_out))]),
           List(sent))

(***************************************************************************)
(* What a client can send.  Request bodies are JSON: `input` absent or     *)
(* null (both read as None by line 193), empty, a number or a text;        *)
(* `conversation` absent, not a list, or a list of well-formed and         *)
(* malformed elements, or the conversation of the last response.           *)
(***************************************************************************)
MaxConvLen == 2

MaxTranscriptLen == 4

SLOVAK_INPUT == <<"Boli ma hlava">>

InputValues == {None, Num, Str(<<>>), Str(SLOVAK_INPUT)}

RawElements ==
    {Message("system", Str(<<"stale prompt">>)),
     Message("user", Str(SLOVAK_INPUT)),
     LocalizedMessage("assistant", Str(<<"reply">>), Str(<<"odpoved">>)),
     [t |-> "dict", content |-> Str(SLOVAK_INPUT)]}

RawConversations ==
    {List(items) : items \in UNION {[1..n -> RawElements] : n \in 0..MaxConvLen}}
    \cup {Missing, None, Num, Str(<<>>), Str(<<"a">>), [t |-> "dict"],
          Message("user", Str(SLOVAK_INPUT))}

ReturnedConversation ==
    IF /\ response.status = 200
       /\ Len(response.body.conversation) <= MaxTranscriptLen
    THEN {List(response.body.conversation)}
    ELSE {}

PatientIds == {7, 8}

ClientSend ==
    /\ app_pc = "serving"
    /\ request = NoRequest \/ response # NoResponse
    /\ \/ \E patient_id \in PatientIds :
            request' = [op |-> "start", patient_id |-> patient_id]
       \/ \E input \in InputValues,
             conversation \in RawConversations \cup ReturnedConversation :
            request' = [op |-> "chat", input |-> input,
                        conversation |-> conversation]
    /\ response' = NoResponse
    /\ completion_request' = None
    /\ UNCHANGED <<rag_vars, oauth_vars>>

(***************************************************************************)
(* GET /start-consultation/<patient_id>: the handler, with what the        *)
(* patient API and the clock give.                                         *)
(***************************************************************************)
PatientData ==
    {Raised,
     [fields |-> {}, firstName |-> None],
     [fields |-> {"lastName"}, firstName |-> None],
     [fields |-> {"firstName"}, firstName |-> Str(<<"Jana">>)]}

StartConsultation ==
    /\ app_pc = "serving"
    /\ request.op = "start"
    /\ response = NoResponse
    /\ \E backend \in PatientData, hour \in 0..23 :
         response' = start_consultation(envfile.id_token, backend, hour)
    /\ UNCHANGED <<request, completion_request, rag_vars, oauth_vars>>

(***************************************************************************)
(* POST /chat: the handler, with what the remote services give.            *)
(***************************************************************************)
ENGLISH_INPUT == <<"I have a headache">>

CompletionOutcomes ==
    {[completion |-> Raised, translate_out |-> Raised],
     [completion |-> Str(<<"reply">>), translate_out |-> Raised],
     [completion |-> Str(<<"reply">>), translate_out |-> Str(<<"odpoved">>)]}

RemoteOutcomes ==
    {[translate_in |-> tr, keywords |-> {}, embed_ok |-> TRUE, labels |-> <<>>,
      completion |-> Raised, translate_out |-> Raised] : tr \in {Raised, Str(<<>>)}}
    \cup
    {[translate_in |-> Str(ENGLISH_INPUT), keywords |-> {}, embed_ok |-> TRUE,
      labels |-> <<>>, completion |-> c.completion,
      translate_out |-> c.translate_out] : c \in CompletionOutcomes}
    \cup
    {[translate_in |-> Str(ENGLISH_INPUT), keywords |-> {<<"headache">>},
      embed_ok |-> FALSE, labels |-> <<>>, completion |-> Raised,
      translate_out |-> Raised]}
    \cup
    {[translate_in |-> Str(ENGLISH_INPUT), keywords |-> {<<"headache">>},
      embed_ok |-> TRUE, labels |-> labels, completion |-> c.completion,
      translate_out |-> c.translate_out] :
        labels \in index_search(index, DEFAULT_TOP_K), c \in CompletionOutcomes}

Chat ==
    /\ app_pc = "serving"
    /\ request.op = "chat"
    /\ response = NoResponse
    /\ \E remote \in RemoteOutcomes :
         LET handled == chat(request, remote)
         IN  /\ response' = handled.response
             /\ completion_request' = handled.completion_request
    /\ UNCHANGED <<request, rag_vars, oauth_vars>>

(***************************************************************************)
(* Idle values of the parts a specification does not run.                  *)
(***************************************************************************)
ChatIdle ==
    /\ request = NoRequest
    /\ response = NoResponse
    /\ completion_request = None

NoTokens == [id_token |-> "", access_token |-> "", refresh_token |-> ""]

OAuthIdle ==
    /\ main_pc = "not_run"
    /\ envfile = NoTokens
    /\ environ = NoTokens
    /\ credentials = TRUE
    /\ tokens = None
    /\ auth_code_holder = [code |-> ""]
    /\ code = ""
    /\ httpd = [state |-> "none", shutdown_request |-> FALSE, handling |-> Missing]
    /\ socket_queue = <<>>
    /\ request_log = <<>>
    /\ token_requests = <<>>

(***************************************************************************)
(* get_oauth2_access_token_server.py.                                      *)
(*                                                                         *)
(* A token key of the .env file that is absent is "", as is a key absent   *)
(* from a token response.  NoCode is None in auth_code_holder (parse_qs    *)
(* drops blank values, so a code is never the empty string).               *)
(***************************************************************************)
MaxRequests == 3

NoCode == ""

Codes == {"code1", "code2"}

StoredTokens ==
    [id_token |-> "id1", access_token |-> "at1", refresh_token |-> "rt1"]

\* The JSON of a 200 from TOKEN_URL: any of the three keys may be absent.
TokenResponses ==
    [id_token : {"", "id2"}, access_token : {"", "at2"},
     refresh_token : {"", "rt2"}]

\* What a POST to TOKEN_URL gives: a 200, another status whose JSON holds no
\* token, or requests.post raising (status 0).
TokenEndpointOutcomes ==
    {[status |-> 200, body |-> b] : b \in TokenResponses}
    \cup {[status |-> 400, body |-> NoTokens], [status |-> 0, body |-> NoTokens]}

\* refresh_tokens(), lines 60-64, after the POST.
refresh_tokens(resp) == IF resp.status # 200 THEN None ELSE resp.body

\* The exchange without the status test of line 76.
exchange_ignoring_status(resp) == resp.body

\* exchange_code_for_tokens(), lines 75-79, after the POST.
exchange_code_for_tokens(resp) == IF resp.status # 200 THEN None ELSE resp.body

\* save_tokens(), lines 82-93: set_key for every token present.
save_tokens(file, toks) ==
    [id_token |-> IF toks.id_token # "" THEN toks.id_token ELSE file.id_token,
     access_token |->
        IF toks.access_token # "" THEN toks.access_token ELSE file.access_token,
     refresh_token |->
        IF toks.refresh_token # "" THEN toks.refresh_token ELSE file.refresh_token]

\* OAuthHandler.do_GET, lines 28-41: the code stored and the status sent for
\* a request whose query holds `query_code` (NoCode: no code parameter).
do_GET(holder, query_code) ==
    IF query_code # NoCode
    THEN [holder |-> [code |-> query_code], status |-> 200]
    ELSE [holder |-> holder, status |-> 400]

listener_vars == <<auth_code_holder, httpd, socket_queue, request_log>>

(***************************************************************************)
(* main(), lines 103-112: the credentials check and the refresh attempt.   *)
(***************************************************************************)
MainRefresh ==
    /\ main_pc = "start"
    /\ IF ~credentials
       THEN /\ main_pc' = "fatal"
            /\ UNCHANGED <<tokens, token_requests>>
       ELSE IF environ.refresh_token = ""
       THEN /\ main_pc' = "full_flow"
            /\ UNCHANGED <<tokens, token_requests>>
       ELSE \E resp \in TokenEndpointOutcomes :
              /\ token_requests' =
                   Append(token_requests,
                          [grant |-> "refresh_token", status |-> resp.status])
              /\ IF resp.status = 0
                 THEN main_pc' = "fatal" /\ tokens' = tokens
                 ELSE /\ tokens' = refresh_tokens(resp)
                      /\ main_pc' = IF tokens' = None THEN "full_flow" ELSE "save"
    /\ UNCHANGED <<envfile, environ, credentials, code, auth_code_holder, httpd,
                   socket_queue, request_log>>
    /\ UNCHANGED <<rag_vars, chat_vars>>

(***************************************************************************)
(* main(), lines 114-130: start_local_server() and the browser.            *)
(***************************************************************************)
MainStartServer ==
    /\ main_pc = "full_flow"
    /\ httpd' = [state |-> "serving", shutdown_request |-> FALSE,
                 handling |-> Missing]
    /\ main_pc' = "waiting"
    /\ UNCHANGED <<envfile, environ, credentials, tokens, code, auth_code_holder,
                   socket_queue, request_log, token_requests>>
    /\ UNCHANGED <<rag_vars, chat_vars>>

(***************************************************************************)
(* main(), lines 131-132: one test of the busy-wait loop.                  *)
(***************************************************************************)
MainBusyWait ==
    /\ main_pc = "waiting"
    /\ main_pc' = IF auth_code_holder.code = NoCode THEN "waiting" ELSE "shutdown"
    /\ UNCHANGED <<envfile, environ, credentials, tokens, code, token_requests>>
    /\ UNCHANGED listener_vars
    /\ UNCHANGED <<rag_vars, chat_vars>>

(***************************************************************************)
(* main(), line 134: httpd.shutdown() sets the request flag ...            *)
(***************************************************************************)
MainShutdown ==
    /\ main_pc = "shutdown"
    /\ httpd' = [httpd EXCEPT !.shutdown_request = TRUE]
    /\ main_pc' = "shutdown_wait"
    /\ UNCHANGED <<envfile, environ, credentials, tokens, code, auth_code_holder,
                   socket_queue, request_log, token_requests>>
    /\ UNCHANGED <<rag_vars, chat_vars>>

(***************************************************************************)
(* ... and returns once serve_forever has left its loop; line 136 then     *)
(* reads the code.                                                         *)
(***************************************************************************)
MainReadCode ==
    /\ main_pc = "shutdown_wait"
    /\ httpd.state = "stopped"
    /\ code' = auth_code_holder["code"]
    /\ main_pc' = "exchange"
    /\ UNCHANGED <<envfile, environ, credentials, tokens, token_requests>>
    /\ UNCHANGED listener_vars
    /\ UNCHANGED <<rag_vars, chat_vars>>

(***************************************************************************)
(* main(), lines 139-142: the code exchange.                               *)
(***************************************************************************)
MainExchange ==
    /\ main_pc = "exchange"
    /\ \E resp \in TokenEndpointOutcomes :
         /\ token_requests' =
              Append(token_requests,
                     [grant |-> "authorization_code", status |-> resp.status])
         /\ IF resp.status = 0
            THEN main_pc' = "fatal" /\ tokens' = tokens
            ELSE /\ tokens' = exchange_code_for_tokens(resp)
                 /\ main_pc' = IF tokens' = None THEN "aborted" ELSE "save"
    /\ UNCHANGED <<envfile, environ, credentials, code>>
    /\ UNCHANGED listener_vars
    /\ UNCHANGED <<rag_vars, chat_vars>>

(***************************************************************************)
(* main(), line 144: save_tokens(tokens).                                  *)
(***************************************************************************)
MainSave ==
    /\ main_pc = "save"
    /\ envfile' = save_tokens(envfile, tokens)
    /\ main_pc' = "done"
    /\ UNCHANGED <<environ, credentials, tokens, code, token_requests>>
    /\ UNCHANGED listener_vars
    /\ UNCHANGED <<rag_vars, chat_vars>>

(***************************************************************************)
(* A user agent opens a connection to the redirect port, with or without   *)
(* a code in the query.  The socket stays bound after shutdown().          *)
(***************************************************************************)
RequestsSeen ==
    Len(socket_queue) + Len(request_log)
    + (IF httpd.handling = Missing THEN 0 ELSE 1)

BrowserRequest ==
    /\ httpd.state \in {"serving", "stopped"}
    /\ RequestsSeen < MaxRequests
    /\ \E query_code \in Codes \cup {NoCode} :
         socket_queue' = Append(socket_queue, query_code)
    /\ UNCHANGED <<main_pc, envfile, environ, credentials, tokens, code,
                   auth_code_holder, httpd, request_log, token_requests>>
    /\ UNCHANGED <<rag_vars, chat_vars>>

(***************************************************************************)
(* serve_forever (line 46), the listener thread.  Each turn of its loop    *)
(* tests the shutdown flag, before and after select(); a connection that   *)
(* is ready then goes to the handler.                                      *)
(***************************************************************************)
ListenerAccept ==
    /\ httpd.state = "serving"
    /\ ~httpd.shutdown_request
    /\ httpd.handling = Missing
    /\ socket_queue # <<>>
    /\ httpd' = [httpd EXCEPT !.handling = Str(Head(socket_queue))]
    /\ socket_queue' = Tail(socket_queue)
    /\ UNCHANGED <<main_pc, envfile, environ, credentials, tokens, code,
                   auth_code_holder, request_log, token_requests>>
    /\ UNCHANGED <<rag_vars, chat_vars>>

ListenerHandle ==
    /\ httpd.state = "serving"
    /\ httpd.handling # Missing
    /\ LET done == do_GET(auth_code_holder, httpd.handling.v)
       IN  /\ auth_code_holder' = done.holder
           /\ request_log' =
                Append(request_log,
                       [code |-> httpd.handling.v, status |-> done.status])
    /\ httpd' = [httpd EXCEPT !.handling = Missing]
    /\ UNCHANGED <<main_pc, envfile, environ, credentials, tokens, code,
                   socket_queue, token_requests>>
    /\ UNCHANGED <<rag_vars, chat_vars>>

ListenerExit ==
    /\ httpd.state = "serving"
    /\ httpd.shutdown_request
    /\ httpd.handling = Missing
    /\ httpd' = [httpd EXCEPT !.state = "stopped", !.shutdown_request = FALSE]
    /\ UNCHANGED <<main_pc, envfile, environ, credentials, tokens, code,
                   auth_code_holder, socket_queue, request_log, token_requests>>
    /\ UNCHANGED <<rag_vars, chat_vars>>

(***************************************************************************)
(* The token acquirer: the script is run with any .env file.  The medbot   *)
(* backend is not running.                                                 *)
(***************************************************************************)
OAuthInit ==
    /\ main_pc = "start"
    /\ envfile \in {NoTokens, StoredTokens,
                    [StoredTokens EXCEPT !.refresh_token = ""]}
    /\ environ = envfile
    /\ credentials \in BOOLEAN
    /\ tokens = None
    /\ auth_code_holder = [code |-> NoCode]
    /\ code = NoCode
    /\ httpd = [state |-> "none", shutdown_request |-> FALSE, handling |-> Missing]
    /\ socket_queue = <<>>
    /\ request_log = <<>>
    /\ token_requests = <<>>
    /\ guideline_content = <<>>
    /\ chunks = <<>>
    /\ index = None
    /\ metadata = <<>>
    /\ app_pc = "not_run"
    /\ retrieval = NoRetrieval
    /\ ChatIdle

OAuthNext ==
    \/ MainRefresh
    \/ MainStartServer
    \/ MainBusyWait
    \/ MainShutdown
    \/ MainReadCode
    \/ MainExchange
    \/ MainSave
    \/ BrowserRequest
    \/ ListenerAccept
    \/ ListenerHandle
    \/ ListenerExit

SpecOAuth == OAuthInit /\ [][OAuthNext]_vars

(***************************************************************************)
(* The retrieval pipeline: __main__ runs initialize() on any guideline     *)
(* text, then retrieve_relevant_chunks is called.                          *)
(***************************************************************************)
RagInit ==
    /\ guideline_content \in GuidelineTexts
    /\ chunks = <<>>
    /\ index = None
    /\ metadata = <<>>
    /\ app_pc = "start"
    /\ retrieval = NoRetrieval
    /\ ChatIdle
    /\ OAuthIdle

RagNext == InitializeChunk \/ InitializeIndex \/ Retrieve

SpecRag == RagInit /\ [][RagNext]_vars

(***************************************************************************)
(* The HTTP backend: __main__ runs initialize() on a guideline text, then  *)
(* serves one request at a time.  The .env file may hold GOOGLE_ID_TOKEN.  *)
(***************************************************************************)
ChatGuidelines == {<<"a">>, <<"L", ".", " ", "L">>}

ChatInit ==
    /\ guideline_content \in ChatGuidelines
    /\ chunks = <<>>
    /\ index = None
    /\ metadata = <<>>
    /\ app_pc = "start"
    /\ retrieval = NoRetrieval
    /\ ChatIdle
    /\ main_pc = "not_run"
    /\ envfile \in {NoTokens, [NoTokens EXCEPT !.id_token = "jwt"]}
    /\ environ = NoTokens
    /\ credentials = TRUE
    /\ tokens = None
    /\ auth_code_holder = [code |-> ""]
    /\ code = ""
    /\ httpd = [state |-> "none", shutdown_request |-> FALSE, handling |-> Missing]
    /\ socket_queue = <<>>
    /\ request_log = <<>>
    /\ token_requests = <<>>

ChatNext ==
    \/ InitializeChunk
    \/ InitializeIndex
    \/ ClientSend
    \/ StartConsultation
    \/ Chat

SpecChat == ChatInit /\ [][ChatNext]_vars

(***************************************************************************)
(*                              The claims                                 *)
(***************************************************************************)

Roles(conversation) == [i \in 1..Len(conversation) |-> conversation[i].role]

SystemPositions(conversation) ==
    {i \in 1..Len(conversation) : conversation[i].role = "system"}

ChatSucceeded == request.op = "chat" /\ response.status = 200

\* The messages of the request a successful turn was given: those of the
\* list sent (an absent or empty non-list value iterates as no message).
PriorMessages ==
    IF request.conversation.t = "list" THEN request.conversation.v ELSE <<>>

NonSystem(conversation) ==
    SelectSeq(conversation, LAMBDA msg : msg.role # "system")

(***************************************************************************)
(* C1.  Whatever transcript POST /chat is given (no, one or several system *)
(* messages, at any positions), the transcript it returns holds exactly    *)
(* one message with role system, and it is the first element.              *)
(***************************************************************************)
C1_ExactlyOneLeadingSystemMessage ==
    ChatSucceeded => SystemPositions(response.body.conversation) = {1}

\* A turn succeeded on a transcript with several system messages, one of
\* them not in front.
C1_Witness ==
    /\ ChatSucceeded
    /\ request.conversation.t = "list"
    /\ Cardinality(SystemPositions(request.conversation.v)) >= 2
    /\ \E i \in SystemPositions(request.conversation.v) : i > 1

(***************************************************************************)
(* C2.  A successful GET /start-consultation/<id> returns a transcript of  *)
(* exactly two elements: a system message, then the assistant's greeting.  *)
(***************************************************************************)
C2_StartReturnsSystemThenAssistant ==
    (request.op = "start" /\ response.status = 200) =>
        Roles(response.body.conversation) = <<"system", "assistant">>

(***************************************************************************)
(* C3.  A successful POST /chat returns, after the system message, the     *)
(* prior non-system messages in their order, then one new user message     *)
(* holding the input, then one new assistant message, which is last; on    *)
(* the transcript Start returns the result has the roles system,           *)
(* assistant, user, assistant.  Each turn so extends the non-system        *)
(* messages it was given: none is removed or moved.                        *)
(***************************************************************************)
IsStartTranscript(conversation) ==
    \E backend \in PatientData, hour \in 0..23 :
        LET started == start_consultation("jwt", backend, hour)
        IN  /\ started.status = 200
            /\ conversation = List(started.body.conversation)

C3_TurnAppendsUserThenAssistant ==
    ChatSucceeded =>
        LET prior == NonSystem(PriorMessages)
            out == response.body.conversation
            n == Len(out)
        IN  /\ n = Len(prior) + 3
            /\ SubSeq(out, 2, n - 2) = prior
            /\ out[n - 1] = Message("user", request.input)
            /\ out[n].role = "assistant"
            /\ NonSystem(out) = prior \o <<out[n - 1], out[n]>>
            /\ IsStartTranscript(request.conversation) =>
                 Roles(out) = <<"system", "assistant", "user", "assistant">>

\* The second turn of a consultation begun with Start has succeeded.
C3_Witness ==
    /\ ChatSucceeded
    /\ request.conversation.t = "list"
    /\ Roles(request.conversation.v) = <<"system", "assistant", "user", "assistant">>
    /\ IsStartTranscript(List(<<request.conversation.v[2]>>))
    /\ Len(response.body.conversation) = 6

\* The request ended in the exception of a remote call (translation,
\* embedding, completion), which section 4.8 lets through as a server error.
RemoteFailure ==
    /\ response.status = 500
    /\ "exception" \in DOMAIN response.body
    /\ response.body.exception \in
         {"translate_slovak_to_english", "embed_text", "call_gpt4",
          "translate_english_to_slovak"}

(***************************************************************************)
(* C4.  POST /chat with a `conversation` that is not a list, or whose      *)
(* elements are not role/content pairs, is answered 400 with an error      *)
(* body; it does not reach the chat-completion call and is no server       *)
(* error.  Stated for requests whose input is a non-empty string and whose *)
(* remote calls all succeed, so that only the conversation decides.        *)
(***************************************************************************)
ValidInput(value) == value.t = "str" /\ value.v # <<>>

WellFormedConversation(value) ==
    \/ value = Missing
    \/ /\ value.t = "list"
       /\ \A i \in 1..Len(value.v) :
            /\ value.v[i].t = "dict"
            /\ {"role", "content"} \subseteq DOMAIN value.v[i]

C4_MalformedConversationRejected ==
    (/\ request.op = "chat"
     /\ response # NoResponse
     /\ ~RemoteFailure
     /\ ValidInput(request.input)
     /\ ~WellFormedConversation(request.conversation)) =>
        /\ response.status = 400
        /\ "error" \in DOMAIN response.body
        /\ completion_request = None

(***************************************************************************)
(* C5.  POST /chat with an `input` that is missing, empty or not a string  *)
(* is answered 400, whatever the translation service returns.  Stated for  *)
(* requests whose conversation is well formed and whose remote calls all   *)
(* return, so that only the input decides.                                 *)
(***************************************************************************)
C5_InvalidInputRejected ==
    (/\ request.op = "chat"
     /\ response # NoResponse
     /\ ~RemoteFailure
     /\ WellFormedConversation(request.conversation)
     /\ ~ValidInput(request.input)) =>
        response.status = 400

(***************************************************************************)
(* The sentences a chunk holds: each sentence of the buffer is followed by *)
(* the delimiter ". ", of which strip() removed the last blank.            *)
(***************************************************************************)
ChunkSentences(chunk) ==
    LET pieces == split(chunk \o <<" ">>)
    IN  SubSeq(pieces, 1, Len(pieces) - 1)

RECURSIVE EmittedSentences(_)
EmittedSentences(cs) ==
    IF cs = <<>> THEN <<>>
    ELSE ChunkSentences(Head(cs)) \o EmittedSentences(Tail(cs))

Chunked == app_pc \in {"chunked", "serving", "crashed"}

UnderBudgetGivesOneChunk ==
    encode_len(guideline_content) < TOKEN_BUDGET => Len(chunks) = 1

(***************************************************************************)
(* C6 as stated.  The sentences of the chunks, in chunk order, are the     *)
(* sentences of the text split on ". ", none dropped, duplicated or        *)
(* reordered; a text under the 500-token budget gives exactly one chunk.   *)
(***************************************************************************)
C6_ChunksReproduceSentences ==
    Chunked =>
        /\ EmittedSentences(chunks) = split(guideline_content)
        /\ UnderBudgetGivesOneChunk

(***************************************************************************)
(* C6 as amended.  The sentences of the chunks are the sentences of the    *)
(* text, in order, none dropped or duplicated, each either unchanged or    *)
(* with its leading whitespace removed (strip() trims the sentence that    *)
(* starts a chunk); a text under the budget gives exactly one chunk.       *)
(***************************************************************************)
C6_ChunksReproduceSentencesUpToLeadingBlanks ==
    Chunked =>
        LET emitted == EmittedSentences(chunks)
            original == split(guideline_content)
        IN  /\ Len(emitted) = Len(original)
            /\ \A i \in 1..Len(original) :
                 emitted[i] \in {original[i], lstrip(original[i])}
            /\ UnderBudgetGivesOneChunk

\* A text was cut into several chunks and a chunk's first sentence lost its
\* leading blank.
C6_Witness ==
    /\ Chunked
    /\ Len(chunks) >= 2
    /\ EmittedSentences(chunks) # split(guideline_content)

(***************************************************************************)
(* C7.  A search whose K exceeds the number of stored vectors returns at   *)
(* most as many chunk texts as the index holds, each stored chunk at most  *)
(* once, and does not fail.                                                *)
(***************************************************************************)
C7_SearchReturnsAtMostStoredCount ==
    (retrieval.status = "ok" /\ retrieval.top_k > Len(index.vectors)) =>
        /\ Len(retrieval.texts) <= Len(index.vectors)
        /\ \A i, j \in 1..Len(retrieval.labels) :
             i # j => retrieval.labels[i] # retrieval.labels[j]

(***************************************************************************)
(* C8.  The token keys of the .env file differ from what they were at the  *)
(* start only once a token response was obtained; the code is exchanged at *)
(* most once; after a failed exchange main() has ended without saving and  *)
(* the token keys are as they were.                                        *)
(***************************************************************************)
ExchangeRequests ==
    {i \in 1..Len(token_requests) : token_requests[i].grant = "authorization_code"}

ExchangeFailed ==
    \E i \in ExchangeRequests : token_requests[i].status # 200

C8_FailedExchangeWritesNoToken ==
    /\ envfile # environ => tokens # None
    /\ Cardinality(ExchangeRequests) <= 1
    /\ ExchangeFailed =>
         /\ main_pc \in {"aborted", "fatal"}
         /\ envfile = environ

\* The refresh was refused, then the exchange: main() gave up, with the
\* stored tokens in the file.
C8_Witness ==
    /\ main_pc = "aborted"
    /\ environ = StoredTokens
    /\ Len(token_requests) = 2
    /\ token_requests[2] = [grant |-> "authorization_code", status |-> 400]

(***************************************************************************)
(* C9.  The code main() exchanges is the code of the first request that    *)
(* carried one, whatever arrives before the listener is shut down; a       *)
(* request without a code is answered 400 and stores none.                 *)
(***************************************************************************)
CodeRequests == SelectSeq(request_log, LAMBDA r : r.code # NoCode)

C9_ExchangedCodeIsFirstCode ==
    /\ code # NoCode => code = CodeRequests[1].code
    /\ \A i \in 1..Len(request_log) :
         request_log[i].code = NoCode => request_log[i].status = 400
    /\ CodeRequests = <<>> => auth_code_holder.code = NoCode

(***************************************************************************)
(* C10.  Every chunk emitted is a non-empty, non-blank string, so that no  *)
(* chunk fails embed_text's validation and, once initialize() is through,  *)
(* the index and the metadata hold one entry per chunk.                    *)
(***************************************************************************)
C10_ChunksNonEmpty ==
    /\ Chunked => \A i \in 1..Len(chunks) : strip(chunks[i]) # <<>>
    /\ app_pc = "serving" =>
         /\ Len(index.vectors) = Len(chunks)
         /\ Len(metadata) = Len(chunks)

====
